---- MODULE Spec2Model ----
(***************************************************************************)
(* Model of process_gtfs.py: the GTFS pipeline that turns stop visits into *)
(* a weighted graph and runs a horizon-bounded Dijkstra from every         *)
(* station.                                                                *)
(*                                                                         *)
(* Representation.  A Python str is a sequence of one-character strings,   *)
(* so that startswith, endswith and [:-1] are computed, not assumed.       *)
(* Durations are integers counted in ticks of 1/TicksPerMinute minute      *)
(* (seconds): a trip weight of m minutes is m * TicksPerMinute, a mean is  *)
(* (sum of ticks) \div count, a transfer of s seconds is s ticks.  Within  *)
(* the bounds every mean is an exact quotient; IEEE rounding of the        *)
(* Python floats is not modelled.  A dict is a function whose DOMAIN is    *)
(* the key set; a list is a sequence.                                      *)
(***************************************************************************)
EXTENDS Integers, Sequences, FiniteSets, TLC

VARIABLES
    pc,                   \* position of the running function
    stations,             \* main: keys of the stations dict, in insertion order
    stop_times_file,      \* build_connections: the rows read from stop_times.txt
    trip_routes,          \* build_connections: dict trip_id -> route_id
    trip_stops,           \* build_connections: dict trip_id -> list of visits
    connections,          \* main: list of Connection
    averaged_connections, \* main: dict (from, to) -> mean weight
    graph,                \* main / dijkstra: dict node -> list of <<neighbor, weight>>
    transfers,            \* add_transfers: state of the transfers.txt reader
    row,                  \* add_transfers: the transfer row of the last loop iteration
    travel_times,         \* main: dict station -> row of distances
    warnings,             \* lines printed as warnings
    output_opens,         \* number of times the output file was opened for writing
    output,               \* the table written to the output file, or None
    failure,              \* the uncaught exception that ended the run, or None
    io_log,               \* the open() calls so far: <<file, mode, found>>
    start,                \* dijkstra: source node
    max_time,             \* dijkstra: horizon
    distances,            \* dijkstra: dict node -> tentative distance
    pq,                   \* dijkstra: the heap, as the list of its entries
    visited,              \* dijkstra: set of expanded nodes
    pushes,               \* dijkstra: number of heappush calls plus the initial entry
    iterations,           \* dijkstra: number of iterations of the while loop so far
    marks                 \* dijkstra: how often each node was added to visited

vars == <<pc, stations, stop_times_file, trip_routes, trip_stops, connections,
          averaged_connections, graph, transfers, row, travel_times, warnings,
          output_opens, output, failure, io_log, start, max_time, distances, pq,
          visited, pushes, iterations, marks>>

mainVars == <<stations, stop_times_file, trip_routes, trip_stops, connections,
              averaged_connections, transfers, row, travel_times, warnings,
              output_opens, output, failure, io_log>>

dijkstraVars == <<start, max_time, distances, pq, visited, pushes, iterations, marks>>

None == "None"
EmptyDict == [x \in {} |-> None]
NoReader == [open |-> FALSE]
NoRow == [read |-> FALSE]
NoOutput == [written |-> FALSE]

(***************************************************************************)
(* Strings                                                                 *)
(***************************************************************************)
idA == <<"A">>
idB == <<"B">>
idC == <<"C">>
idAN == <<"A", "N">>
idS1 == <<"S", "1">>

\* code point of a character
Ord(c) == CASE c = "1" -> 49 [] c = "A" -> 65 [] c = "B" -> 66 [] c = "C" -> 67
            [] c = "N" -> 78 [] c = "S" -> 83

RECURSIVE StrLess(_, _)
StrLess(a, b) ==
    IF a = <<>> THEN b # <<>>
    ELSE IF b = <<>> THEN FALSE
    ELSE IF Ord(Head(a)) # Ord(Head(b)) THEN Ord(Head(a)) < Ord(Head(b))
    ELSE StrLess(Tail(a), Tail(b))

startswith(s, c) == Len(s) > 0 /\ s[1] = c
endswith(s, c) == Len(s) > 0 /\ s[Len(s)] = c
StripLast(s) == SubSeq(s, 1, Len(s) - 1)

SeqsUpTo(S, n) == UNION {[1..k -> S] : k \in 0..n}

Put(f, k, v) == [x \in DOMAIN f \cup {k} |-> IF x = k THEN v ELSE f[x]]

(***************************************************************************)
(* dijkstra                                                                *)
(***************************************************************************)
\* tuple comparison of heap entries <<distance, node>>
HeapLess(e, f) == e[1] < f[1] \/ (e[1] = f[1] /\ StrLess(e[2], f[2]))

\* index of the entry heappop returns: a smallest one
PopIndex(q) == CHOOSE i \in 1..Len(q) : \A j \in 1..Len(q) : ~HeapLess(q[j], q[i])

RemoveAt(q, i) == SubSeq(q, 1, i - 1) \o SubSeq(q, i + 1, Len(q))

ImprovesFirstOnly(dist, neighbor, distance, horizon) ==
    distance <= horizon /\ neighbor \notin DOMAIN dist

\* the condition of line 163
Improves(dist, neighbor, distance, horizon) ==
    distance <= horizon /\ (neighbor \notin DOMAIN dist \/ distance < dist[neighbor])

\* the for loop of lines 160-165 over the neighbor list, from entry i on
RECURSIVE RelaxNeighbors(_, _, _, _, _)
RelaxNeighbors(d, entries, i, current_dist, horizon) ==
    IF i > Len(entries) THEN d
    ELSE LET neighbor == entries[i][1]
             weight == entries[i][2]
             distance == current_dist + weight
         IN IF Improves(d.distances, neighbor, distance, horizon)
            THEN RelaxNeighbors([d EXCEPT !.distances = Put(@, neighbor, distance),
                                          !.pq = Append(@, <<distance, neighbor>>)],
                                entries, i + 1, current_dist, horizon)
            ELSE RelaxNeighbors(d, entries, i + 1, current_dist, horizon)

AlreadyVisitedNever(node, seen) == FALSE

\* the test of line 150
AlreadyVisited(node, seen) == node \in seen

\* one iteration of the while loop of lines 147-165
Iteration(g, horizon, d) ==
    LET i == PopIndex(d.pq)
        current_dist == d.pq[i][1]
        current_node == d.pq[i][2]
        popped == [d EXCEPT !.pq = RemoveAt(@, i)]
    IN IF AlreadyVisited(current_node, d.visited) THEN popped
       ELSE IF current_dist > horizon THEN popped
       ELSE LET marked == [popped EXCEPT !.visited = @ \cup {current_node}]
            IN IF current_node \notin DOMAIN g THEN marked
               ELSE RelaxNeighbors(marked, g[current_node], 1, current_dist, horizon)

\* lines 143-145
DijkstraInit(s) ==
    [distances |-> [x \in {s} |-> 0], pq |-> <<<<0, s>>>>, visited |-> {}]

RECURSIVE DijkstraLoop(_, _, _)
DijkstraLoop(g, horizon, d) ==
    IF d.pq = <<>> THEN d.distances ELSE DijkstraLoop(g, horizon, Iteration(g, horizon, d))

dijkstra(g, s, horizon) == DijkstraLoop(g, horizon, DijkstraInit(s))

(***************************************************************************)
(* read_stops                                                              *)
(***************************************************************************)
\* a file of the GTFS directory: absent, or its rows
Missing == [exists |-> FALSE, rows |-> <<>>]
File(rows) == [exists |-> TRUE, rows |-> rows]

\* stations[stop_id] = ... on a dict whose keys are kept in insertion order
AddKey(keys, k) ==
    IF \E i \in 1..Len(keys) : keys[i] = k THEN keys ELSE Append(keys, k)

\* lines 44-61, from row i on; a stops.txt row is its stop_id (name and
\* coordinates are carried along unchanged and are left out)
RECURSIVE ReadStopRows(_, _, _)
ReadStopRows(rows, i, keys) ==
    IF i > Len(rows) THEN keys
    ELSE LET stop_id == rows[i]
         IN IF startswith(stop_id, "S") THEN ReadStopRows(rows, i + 1, keys)
            ELSE IF ~(endswith(stop_id, "N") \/ endswith(stop_id, "S"))
                 THEN ReadStopRows(rows, i + 1, AddKey(keys, stop_id))
                 ELSE ReadStopRows(rows, i + 1, keys)

read_stops(file) == ReadStopRows(file.rows, 1, <<>>)

(***************************************************************************)
(* build_connections                                                       *)
(***************************************************************************)
\* lines 72-74: later rows of trips.txt overwrite earlier ones
RECURSIVE ReadTrips(_, _, _)
ReadTrips(rows, i, routes) ==
    IF i > Len(rows) THEN routes
    ELSE ReadTrips(rows, i + 1, Put(routes, rows[i][1], rows[i][2]))

\* lines 85-87
StripDirection(stop_id) ==
    IF endswith(stop_id, "N") \/ endswith(stop_id, "S") THEN StripLast(stop_id)
    ELSE stop_id

\* lines 94-96: arrival_time "HH:MM:SS" is the triple <<h, m, s>>
ArrivalMinutes(arrival_time) == arrival_time[1] * 60 + arrival_time[2]

\* trip_stops[trip_id].append(visit) on a defaultdict(list) kept in
\* insertion order, as the list of its <<key, value>> items
AppendVisit(ts, trip_id, visit) ==
    IF \E i \in 1..Len(ts) : ts[i][1] = trip_id
    THEN [i \in 1..Len(ts) |->
            IF ts[i][1] = trip_id THEN <<trip_id, Append(ts[i][2], visit)>> ELSE ts[i]]
    ELSE Append(ts, <<trip_id, <<visit>>>>)

\* lines 81-102, from row i on
RECURSIVE ReadStopTimes(_, _, _)
ReadStopTimes(rows, i, ts) ==
    IF i > Len(rows) THEN ts
    ELSE LET stop_id == StripDirection(rows[i].stop_id)
         IN IF startswith(stop_id, "S") THEN ReadStopTimes(rows, i + 1, ts)
            ELSE ReadStopTimes(rows, i + 1,
                    AppendVisit(ts, rows[i].trip_id,
                                <<rows[i].stop_sequence, stop_id,
                                  ArrivalMinutes(rows[i].arrival_time)>>))

\* list.sort(key=lambda x: x[0]): stable, by insertion
RECURSIVE InsertBySequence(_, _)
InsertBySequence(sorted, v) ==
    IF sorted = <<>> THEN <<v>>
    ELSE IF sorted[Len(sorted)][1] <= v[1] THEN Append(sorted, v)
    ELSE Append(InsertBySequence(SubSeq(sorted, 1, Len(sorted) - 1), v),
                sorted[Len(sorted)])

RECURSIVE SortBySequence(_)
SortBySequence(stops) ==
    IF stops = <<>> THEN <<>>
    ELSE InsertBySequence(SortBySequence(SubSeq(stops, 1, Len(stops) - 1)),
                          stops[Len(stops)])

ReasonableUpToThirty(travel_time) == travel_time > 0 /\ travel_time <= 30

\* line 117
Reasonable(travel_time) == travel_time > 0 /\ travel_time < 30

\* lines 112-123 for one sorted trip, from pair i on
RECURSIVE TripConnections(_, _, _)
TripConnections(stops, route, i) ==
    IF i > Len(stops) - 1 THEN <<>>
    ELSE LET travel_time == stops[i + 1][3] - stops[i][3]
             rest == TripConnections(stops, route, i + 1)
         IN IF Reasonable(travel_time)
            THEN <<[from_stop |-> stops[i][2], to_stop |-> stops[i + 1][2],
                    travel_time |-> travel_time, route |-> route]>> \o rest
            ELSE rest

\* lines 105-123, from item k of trip_stops on: the connections appended and
\* trip_stops with the lists sorted in place
RECURSIVE CreateConnections(_, _, _)
CreateConnections(ts, routes, k) ==
    IF k > Len(ts) THEN [connections |-> <<>>, trip_stops |-> ts]
    ELSE IF ts[k][1] \notin DOMAIN routes THEN CreateConnections(ts, routes, k + 1)
    ELSE LET sorted == SortBySequence(ts[k][2])
             ts1 == [ts EXCEPT ![k] = <<ts[k][1], sorted>>]
             rest == CreateConnections(ts1, routes, k + 1)
         IN [connections |-> TripConnections(sorted, routes[ts[k][1]], 1) \o rest.connections,
             trip_stops |-> rest.trip_stops]

Abort(exception) ==
    /\ pc' = "aborted"
    /\ failure' = exception

\* build_connections, lines 65-125, called at line 225
BuildConnectionsOf(TripsFiles, StopTimesFiles) ==
    /\ pc = "build_connections"
    /\ \E trips_txt \in TripsFiles, stop_times_txt \in StopTimesFiles :
          IF ~trips_txt.exists \/ ~stop_times_txt.exists
          THEN /\ Abort("FileNotFoundError")
               /\ trip_routes' = IF ~trips_txt.exists THEN trip_routes
                                 ELSE ReadTrips(trips_txt.rows, 1, EmptyDict)
               /\ io_log' = IF ~trips_txt.exists
                             THEN Append(io_log, <<"trips.txt", "r", FALSE>>)
                             ELSE io_log \o << <<"trips.txt", "r", TRUE>>,
                                               <<"stop_times.txt", "r", FALSE>> >>
               /\ UNCHANGED <<stop_times_file, trip_stops, connections>>
          ELSE LET routes == ReadTrips(trips_txt.rows, 1, EmptyDict)
                   built == CreateConnections(ReadStopTimes(stop_times_txt.rows, 1, <<>>),
                                              routes, 1)
               IN /\ pc' = "average_connections"
                  /\ stop_times_file' = stop_times_txt
                  /\ trip_routes' = routes
                  /\ trip_stops' = built.trip_stops
                  /\ connections' = built.connections
                  /\ io_log' = io_log \o << <<"trips.txt", "r", TRUE>>,
                                            <<"stop_times.txt", "r", TRUE>> >>
                  /\ UNCHANGED failure
    /\ UNCHANGED <<stations, averaged_connections, graph, transfers, row,
                   travel_times, warnings, output_opens, output>>
    /\ UNCHANGED dijkstraVars

(***************************************************************************)
(* average_connections, build_graph                                        *)
(***************************************************************************)
TicksPerMinute == 60

RECURSIVE SumOf(_)
SumOf(times) == IF times = <<>> THEN 0 ELSE Head(times) + SumOf(Tail(times))

\* connection_times[key].append(travel_time), a defaultdict(list) kept in
\* insertion order as the list of its <<key, value>> items
RECURSIVE GroupTimes(_, _, _)
GroupTimes(conns, i, groups) ==
    IF i > Len(conns) THEN groups
    ELSE LET key == <<conns[i].from_stop, conns[i].to_stop>>
         IN GroupTimes(conns, i + 1,
               IF \E k \in 1..Len(groups) : groups[k][1] = key
               THEN [k \in 1..Len(groups) |->
                       IF groups[k][1] = key
                       THEN <<key, Append(groups[k][2], conns[i].travel_time)>>
                       ELSE groups[k]]
               ELSE Append(groups, <<key, <<conns[i].travel_time>>>>))

\* sum(times) / len(times), minutes, as ticks
MeanTicks(times) == (SumOf(times) * TicksPerMinute) \div Len(times)

\* lines 127-139: the items of the averaged dict, in insertion order
average_connections(conns) ==
    LET groups == GroupTimes(conns, 1, <<>>)
    IN [k \in 1..Len(groups) |-> <<groups[k][1], MeanTicks(groups[k][2])>>]

\* graph[node].append(entry) on a defaultdict(list) or after "not in graph"
AppendEntry(g, node, entry) ==
    Put(g, node, IF node \in DOMAIN g THEN Append(g[node], entry) ELSE <<entry>>)

InsertOneWay(g, a, b, w) == AppendEntry(g, a, <<b, w>>)

\* lines 174-176 and 208-209: the entry and its reverse
InsertBothWays(g, a, b, w) == AppendEntry(AppendEntry(g, a, <<b, w>>), b, <<a, w>>)

\* lines 169-178, from item k of the averaged dict on
RECURSIVE BuildGraphFrom(_, _, _)
BuildGraphFrom(averaged, k, g) ==
    IF k > Len(averaged) THEN g
    ELSE BuildGraphFrom(averaged, k + 1,
            InsertBothWays(g, averaged[k][1][1], averaged[k][1][2], averaged[k][2]))

RECURSIVE BuildDirectedFrom(_, _, _)
BuildDirectedFrom(averaged, k, g) ==
    IF k > Len(averaged) THEN g
    ELSE BuildDirectedFrom(averaged, k + 1,
            AppendEntry(g, averaged[k][1][1], <<averaged[k][1][2], averaged[k][2]>>))

build_graph_directed(averaged) == BuildDirectedFrom(averaged, 1, EmptyDict)

build_graph(averaged) == BuildGraphFrom(averaged, 1, EmptyDict)

(***************************************************************************)
(* main                                                                    *)
(***************************************************************************)
MainHorizonMinutes == 120

ReadStopsSkippingMissing(StopsFiles) ==
    /\ pc = "read_stops"
    /\ \E stops_txt \in StopsFiles :
          /\ pc' = "build_connections"
          /\ stations' = read_stops(stops_txt)
          /\ io_log' = Append(io_log, <<"stops.txt", "r", stops_txt.exists>>)
          /\ UNCHANGED failure
    /\ UNCHANGED <<stop_times_file, trip_routes, trip_stops, connections,
                   averaged_connections, graph, transfers, row, travel_times,
                   warnings, output_opens, output>>
    /\ UNCHANGED dijkstraVars

\* line 220: read_stops; a missing stops.txt raises out of main
ReadStopsOf(StopsFiles) ==
    /\ pc = "read_stops"
    /\ \E stops_txt \in StopsFiles :
          /\ io_log' = Append(io_log, <<"stops.txt", "r", stops_txt.exists>>)
          /\ IF ~stops_txt.exists
             THEN Abort("FileNotFoundError") /\ UNCHANGED stations
             ELSE /\ pc' = "build_connections"
                  /\ stations' = read_stops(stops_txt)
                  /\ UNCHANGED failure
    /\ UNCHANGED <<stop_times_file, trip_routes, trip_stops, connections,
                   averaged_connections, graph, transfers, row, travel_times,
                   warnings, output_opens, output>>
    /\ UNCHANGED dijkstraVars

\* line 230; the locals of build_connections are gone
AverageConnections ==
    /\ pc = "average_connections"
    /\ pc' = "build_graph"
    /\ averaged_connections' = average_connections(connections)
    /\ stop_times_file' = Missing /\ trip_routes' = EmptyDict /\ trip_stops' = <<>>
    /\ UNCHANGED <<stations, connections, graph, transfers, row, travel_times,
                   warnings, output_opens, output, failure, io_log>>
    /\ UNCHANGED dijkstraVars

\* line 234
BuildGraph ==
    /\ pc = "build_graph"
    /\ pc' = "add_transfers"
    /\ graph' = build_graph(averaged_connections)
    /\ UNCHANGED mainVars
    /\ UNCHANGED dijkstraVars

TransferWarning == "Warning: transfers.txt not found, skipping transfer connections"

OpenTransfersUncaught(Headers) ==
    /\ pc = "add_transfers"
    /\ \E header \in Headers :
        /\ io_log' = Append(io_log, <<"transfers.txt", "r", header.exists>>)
        /\ IF ~header.exists
           THEN Abort("FileNotFoundError") /\ UNCHANGED <<transfers, warnings>>
           ELSE /\ pc' = "transfers_loop"
                /\ transfers' = [open |-> TRUE, time_column |-> header.time_column,
                                 rows_read |-> 0]
                /\ UNCHANGED <<warnings, failure>>
    /\ UNCHANGED <<stations, stop_times_file, trip_routes, trip_stops, connections,
                   averaged_connections, graph, row, travel_times, output_opens,
                   output>>
    /\ UNCHANGED dijkstraVars

\* lines 182-186 and 211-214: open transfers.txt; a missing file is reported
\* and add_transfers returns the graph as it is.  A present file either has
\* the min_transfer_time column or not.
OpenTransfersOf(Headers) ==
    /\ pc = "add_transfers"
    /\ \E header \in Headers :
        /\ io_log' = Append(io_log, <<"transfers.txt", "r", header.exists>>)
        /\ IF ~header.exists
           THEN /\ pc' = "dijkstra_rows"
                /\ warnings' = Append(warnings, TransferWarning)
                /\ UNCHANGED transfers
           ELSE /\ pc' = "transfers_loop"
                /\ transfers' = [open |-> TRUE, time_column |-> header.time_column,
                                 rows_read |-> 0]
                /\ UNCHANGED warnings
    /\ UNCHANGED <<stations, stop_times_file, trip_routes, trip_stops, connections,
                   averaged_connections, graph, row, travel_times, output_opens,
                   output, failure>>
    /\ UNCHANGED dijkstraVars


MaxTransferRows == 2

\* float(text): the numerals the transfer rows use; any other text,
\* the empty field included, raises ValueError
FloatOf == ("-60" :> -60) @@ ("120" :> 120) @@ ("180" :> 180)

\* line 200: float(row.get('min_transfer_time', 120)) / 60, as ticks; the
\* default applies when the row has no such key
TransferTime(r) ==
    LET text == IF "min_transfer_time" \in DOMAIN r THEN r.min_transfer_time ELSE "120"
    IN IF text \in DOMAIN FloatOf
       THEN [raised |-> FALSE, value |-> (FloatOf[text] * TicksPerMinute) \div 60]
       ELSE [raised |-> TRUE, value |-> 0]

\* the rows a transfers.txt with or without the min_transfer_time column has
TransferRowsOf(Stops, Texts, time_column) ==
    IF time_column
    THEN [from_stop_id : Stops, to_stop_id : Stops, min_transfer_time : Texts]
    ELSE [from_stop_id : Stops, to_stop_id : Stops]

\* lines 187-209: one iteration of the loop over the rows of transfers.txt
AddTransferRowOf(Stops, Texts) ==
    /\ pc = "transfers_loop"
    /\ transfers.rows_read < MaxTransferRows
    /\ \E r \in TransferRowsOf(Stops, Texts, transfers.time_column) :
          LET from_stop == r.from_stop_id
              to_stop == r.to_stop_id
              transfer_time == TransferTime(r)
          IN /\ row' = r
             /\ transfers' = [transfers EXCEPT !.rows_read = @ + 1]
             /\ IF startswith(from_stop, "S") \/ startswith(to_stop, "S")
                THEN UNCHANGED <<pc, graph, failure>>
                ELSE IF from_stop = to_stop
                THEN UNCHANGED <<pc, graph, failure>>
                ELSE IF transfer_time.raised
                THEN Abort("ValueError") /\ UNCHANGED graph
                ELSE /\ graph' = InsertBothWays(graph, from_stop, to_stop,
                                                transfer_time.value)
                     /\ UNCHANGED <<pc, failure>>
    /\ UNCHANGED <<stations, stop_times_file, trip_routes, trip_stops, connections,
                   averaged_connections, travel_times, warnings, output_opens,
                   output, io_log>>
    /\ UNCHANGED dijkstraVars

\* the loop ends with the file; line 214 returns the graph
EndTransfers ==
    /\ pc = "transfers_loop"
    /\ pc' = "dijkstra_rows"
    /\ transfers' = NoReader
    /\ row' = NoRow
    /\ UNCHANGED <<stations, stop_times_file, trip_routes, trip_stops, connections,
                   averaged_connections, graph, travel_times, warnings,
                   output_opens, output, failure, io_log>>
    /\ UNCHANGED dijkstraVars

\* lines 244-249: one iteration of the loop over stations.keys()
ComputeRow ==
    /\ pc = "dijkstra_rows"
    /\ Cardinality(DOMAIN travel_times) < Len(stations)
    /\ LET station_id == stations[Cardinality(DOMAIN travel_times) + 1]
       IN travel_times' = Put(travel_times, station_id,
                              dijkstra(graph, station_id,
                                       MainHorizonMinutes * TicksPerMinute))
    /\ UNCHANGED <<pc, graph, stations, stop_times_file, trip_routes, trip_stops,
                   connections, averaged_connections, transfers, row, warnings,
                   output_opens, output, failure, io_log>>
    /\ UNCHANGED dijkstraVars

\* lines 252-270: the loop is over; the table is written
WriteOutput ==
    /\ pc = "dijkstra_rows"
    /\ Cardinality(DOMAIN travel_times) = Len(stations)
    /\ pc' = "done"
    /\ io_log' = Append(io_log, <<"output", "w", TRUE>>)
    /\ output_opens' = output_opens + 1
    /\ output' = [written |-> TRUE,
                  stations |-> {stations[i] : i \in 1..Len(stations)},
                  travel_times |-> travel_times]
    /\ UNCHANGED <<graph, stations, stop_times_file, trip_routes, trip_stops,
                   connections, averaged_connections, transfers, row, travel_times,
                   warnings, failure>>
    /\ UNCHANGED dijkstraVars

InitLocals ==
    /\ stations = <<>> /\ stop_times_file = Missing /\ trip_routes = EmptyDict
    /\ trip_stops = <<>> /\ connections = <<>>
    /\ averaged_connections = <<>> /\ transfers = NoReader /\ row = NoRow
    /\ travel_times = EmptyDict /\ warnings = <<>> /\ output_opens = 0
    /\ output = NoOutput /\ failure = None /\ io_log = <<>>

InitNoSearch ==
    /\ start = <<>> /\ max_time = 0 /\ distances = EmptyDict /\ pq = <<>>
    /\ visited = {} /\ pushes = 0 /\ iterations = 0 /\ marks = EmptyDict

(***************************************************************************)
(* A run of main over any GTFS directory within bounds                     *)
(***************************************************************************)
MaxStopRows == 2
MaxMainStopTimeRows == 2

MainStopsFiles ==
    {Missing} \cup {File(rows) : rows \in SeqsUpTo({idA, idB, idAN, idS1}, MaxStopRows)}

MainTripsFiles == {Missing, File(<<>>), File(<< <<"t1", "r1">> >>)}

MainStopTimeRows ==
    [trip_id : {"t1"}, stop_id : {idAN, idB},
     arrival_time : {<<0, 10, 0>>, <<0, 15, 0>>}, stop_sequence : {1, 2}]

MainStopTimesFiles ==
    {Missing} \cup {File(rows) : rows \in SeqsUpTo(MainStopTimeRows, MaxMainStopTimeRows)}

TransferHeaders ==
    {[exists |-> FALSE, time_column |-> FALSE],
     [exists |-> TRUE, time_column |-> FALSE],
     [exists |-> TRUE, time_column |-> TRUE]}

TransferStops == {idA, idB, idS1}
TransferTexts == {"", "-60", "180"}

InitMain ==
    /\ pc = "read_stops"
    /\ graph = EmptyDict
    /\ InitLocals
    /\ InitNoSearch

ReadStops == ReadStopsOf(MainStopsFiles)
BuildConnections == BuildConnectionsOf(MainTripsFiles, MainStopTimesFiles)
OpenTransfers == OpenTransfersOf(TransferHeaders)
AddTransferRow == AddTransferRowOf(TransferStops, TransferTexts)

NextMain ==
    \/ ReadStops
    \/ BuildConnections
    \/ AverageConnections
    \/ BuildGraph
    \/ OpenTransfers
    \/ AddTransferRow
    \/ EndTransfers
    \/ ComputeRow
    \/ WriteOutput

SpecMain == InitMain /\ [][NextMain]_vars

(***************************************************************************)
(* The search on its own: any dict of neighbor lists, source and horizon   *)
(***************************************************************************)
MaxEntries == 4

SearchWeights == <<4, 3, -3>>
SearchHorizons == {-1, 5, 7, 10}
SearchStarts == {idA, idC}

\* every possible neighbor entry <<from, to, weight>>, in a fixed order
EntryOptions ==
    LET ns == <<idA, idB, idC>>
    IN [k \in 1..18 |->
          LET u == ns[((k - 1) \div 6) + 1]
              r == (k - 1) % 6
              others == SelectSeq(ns, LAMBDA x : x # u)
          IN <<u, others[(r \div 3) + 1], SearchWeights[(r % 3) + 1]>>]

RECURSIVE SubsetsUpTo(_, _)
SubsetsUpTo(S, k) ==
    IF k = 0 THEN {{}}
    ELSE LET P == SubsetsUpTo(S, k - 1) IN P \cup {p \cup {x} : p \in P, x \in S}

\* the dict whose neighbor lists hold the chosen entries
GraphOf(chosen) ==
    LET kept == SelectSeq(EntryOptions, LAMBDA e : e \in chosen)
        keys == {kept[i][1] : i \in 1..Len(kept)}
        strip(s) == [i \in 1..Len(s) |-> <<s[i][2], s[i][3]>>]
    IN [u \in keys |-> strip(SelectSeq(kept, LAMBDA e : e[1] = u))]

InitSearch ==
    /\ pc = "search"
    /\ \E chosen \in SubsetsUpTo({EntryOptions[k] : k \in 1..18}, MaxEntries) :
          graph = GraphOf(chosen)
    /\ start \in SearchStarts
    /\ max_time \in SearchHorizons
    /\ distances = DijkstraInit(start).distances
    /\ pq = DijkstraInit(start).pq
    /\ visited = DijkstraInit(start).visited
    /\ pushes = 1
    /\ iterations = 0
    /\ marks = EmptyDict
    /\ stations = <<>> /\ stop_times_file = Missing /\ trip_routes = EmptyDict
    /\ trip_stops = <<>> /\ connections = <<>>
    /\ averaged_connections = <<>> /\ transfers = NoReader /\ row = NoRow
    /\ travel_times = EmptyDict /\ warnings = <<>> /\ output_opens = 0
    /\ output = NoOutput /\ failure = None /\ io_log = <<>>

SearchState == [distances |-> distances, pq |-> pq, visited |-> visited]
Top == pq[PopIndex(pq)]

SearchStep ==
    LET d == Iteration(graph, max_time, SearchState)
    IN /\ distances' = d.distances
       /\ pq' = d.pq
       /\ visited' = d.visited
       /\ pushes' = pushes + (Len(d.pq) - (Len(pq) - 1))
       /\ iterations' = iterations + 1
       /\ marks' = IF d.visited = visited THEN marks
                   ELSE Put(marks, Top[2],
                            IF Top[2] \in DOMAIN marks THEN marks[Top[2]] + 1 ELSE 1)
       /\ UNCHANGED <<pc, graph, start, max_time>>
       /\ UNCHANGED mainVars

\* line 150-151: the popped node was expanded before
PopVisited ==
    /\ pc = "search" /\ pq # <<>>
    /\ AlreadyVisited(Top[2], visited)
    /\ SearchStep

\* line 152-153: the popped distance is beyond the horizon
PopBeyondHorizon ==
    /\ pc = "search" /\ pq # <<>>
    /\ ~AlreadyVisited(Top[2], visited) /\ Top[1] > max_time
    /\ SearchStep

\* line 155-158: the popped node has no neighbor list
PopLeaf ==
    /\ pc = "search" /\ pq # <<>>
    /\ ~AlreadyVisited(Top[2], visited) /\ Top[1] <= max_time
    /\ Top[2] \notin DOMAIN graph
    /\ SearchStep

\* line 155-165: the popped node is expanded
PopExpand ==
    /\ pc = "search" /\ pq # <<>>
    /\ ~AlreadyVisited(Top[2], visited) /\ Top[1] <= max_time
    /\ Top[2] \in DOMAIN graph
    /\ SearchStep

\* line 167
SearchReturn ==
    /\ pc = "search" /\ pq = <<>>
    /\ pc' = "returned"
    /\ UNCHANGED <<graph>>
    /\ UNCHANGED dijkstraVars
    /\ UNCHANGED mainVars

NextSearch == PopVisited \/ PopBeyondHorizon \/ PopLeaf \/ PopExpand \/ SearchReturn

SpecSearch == InitSearch /\ [][NextSearch]_vars

(***************************************************************************)
(* Reference distances, by relaxation to a fixpoint (Bellman-Ford)         *)
(***************************************************************************)
Infinity == 1000000

NodesOf(g, s) ==
    DOMAIN g \cup {s}
      \cup UNION {{g[u][i][1] : i \in 1..Len(g[u])} : u \in DOMAIN g}

NeighborEntries(g) ==
    LET RECURSIVE Sum(_)
        Sum(S) == IF S = {} THEN 0
                  ELSE LET u == CHOOSE x \in S : TRUE IN Len(g[u]) + Sum(S \ {u})
    IN Sum(DOMAIN g)

NonNegative(g) == \A u \in DOMAIN g : \A i \in 1..Len(g[u]) : g[u][i][2] >= 0

MinOf(S) == CHOOSE x \in S : \A y \in S : x <= y

RelaxAll(g, D) ==
    [n \in DOMAIN D |->
        MinOf({D[n]} \cup {D[u] + g[u][i][2] :
                  <<u, i>> \in {<<u, i>> \in UNION {{<<v, j>> : j \in 1..Len(g[v])} : v \in DOMAIN g} :
                                  g[u][i][1] = n /\ D[u] < Infinity}})]

RECURSIVE RelaxTimes(_, _, _)
RelaxTimes(g, D, k) == IF k = 0 THEN D ELSE RelaxTimes(g, RelaxAll(g, D), k - 1)

TrueDistance(g, s) ==
    RelaxTimes(g, [n \in NodesOf(g, s) |-> IF n = s THEN 0 ELSE Infinity],
               Cardinality(NodesOf(g, s)))

LineGraph ==
    (idA :> <<<<idB, 3>>>>) @@ (idB :> <<<<idA, 3>>, <<idC, 4>>>>) @@ (idC :> <<<<idB, 4>>>>)

\* C1: with non-negative weights and a horizon >= 0, the mapping dijkstra
\* returns has exactly the nodes whose shortest-path distance from start is
\* within the horizon as keys, each with that shortest-path distance as its
\* value; on the line A-B (3), B-C (4) from A that is {A:0, B:3, C:7} for
\* horizon 10 and {A:0, B:3} for horizon 5.
C1_ShortestWithinHorizon ==
    (pc = "returned" /\ NonNegative(graph) /\ max_time >= 0) =>
        LET T == TrueDistance(graph, start)
        IN /\ DOMAIN distances = {n \in DOMAIN T : T[n] <= max_time}
           /\ \A n \in DOMAIN distances : distances[n] = T[n]
           /\ (graph = LineGraph /\ start = idA /\ max_time = 10) =>
                 distances = (idA :> 0) @@ (idB :> 3) @@ (idC :> 7)
           /\ (graph = LineGraph /\ start = idA /\ max_time = 5) =>
                 distances = (idA :> 0) @@ (idB :> 3)

C1_Witness ==
    /\ pc = "returned"
    /\ graph = LineGraph /\ start = idA /\ max_time = 5
    /\ distances = (idA :> 0) @@ (idB :> 3)

\* C10: whatever the weights and the horizon, dijkstra terminates: every
\* node is added to visited at most once, the number of pushes never exceeds
\* the number of neighbor entries plus one, every iteration of the loop
\* consumes one pushed entry, so the loop runs at most that many times and
\* the queue is empty once it has.
C10_Terminates ==
    /\ \A n \in DOMAIN marks : marks[n] <= 1
    /\ pushes <= NeighborEntries(graph) + 1
    /\ iterations + Len(pq) = pushes
    /\ iterations <= NeighborEntries(graph) + 1
    /\ (pc = "returned") => (pq = <<>>)

C10_Witness ==
    /\ pc = "returned"
    /\ ~NonNegative(graph)
    /\ pushes >= 4
    /\ \E n \in DOMAIN distances : distances[n] < 0

(***************************************************************************)
(* build_connections on its own: any trips and stop_times within bounds    *)
(***************************************************************************)
MaxStopTimeRows == 3
MaxIdLen == 3

IdAlphabet == {"S", "N", "A", "B", "1"}

\* trip t1 has a route, trip t2 has none
ConnectionTripsFiles == {File(<< <<"t1", "r1">> >>)}

StopTimeRows ==
    [trip_id : {"t1", "t2"}, stop_id : {idAN, idB},
     arrival_time : {<<0, 10, 0>>, <<0, 15, 30>>, <<0, 45, 0>>},
     stop_sequence : {1, 2}]

\* a visit at any raw stop identifier, followed by a visit at B
RawIdFiles ==
    {File(<<[trip_id |-> "t1", stop_id |-> raw, arrival_time |-> <<0, 10, 0>>,
             stop_sequence |-> 1],
            [trip_id |-> "t1", stop_id |-> idB, arrival_time |-> <<0, 15, 0>>,
             stop_sequence |-> 2]>>) : raw \in SeqsUpTo(IdAlphabet, MaxIdLen)}

ConnectionStopTimesFiles ==
    {File(rows) : rows \in SeqsUpTo(StopTimeRows, MaxStopTimeRows)} \cup RawIdFiles

InitConnections ==
    /\ pc = "build_connections"
    /\ graph = EmptyDict
    /\ InitLocals
    /\ InitNoSearch

ConnectionsCall == BuildConnectionsOf(ConnectionTripsFiles, ConnectionStopTimesFiles)

NextConnections == ConnectionsCall

SpecConnections == InitConnections /\ [][NextConnections]_vars

AtConnectionsReturn == pc = "average_connections" /\ stop_times_file.exists

\* the items of trip_stops as the set of <<trip, visit>>
VisitsKept ==
    {<<trip_stops[k][1], trip_stops[k][2][j]>> :
        <<k, j>> \in UNION {{<<k2, j2>> : j2 \in 1..Len(trip_stops[k2][2])} :
                             k2 \in 1..Len(trip_stops)}}

ClaimedExcluded(raw) == startswith(raw, "S")
ClaimedCanonical(raw) ==
    IF endswith(raw, "N") \/ endswith(raw, "S") THEN StripLast(raw) ELSE raw

\* C4: a raw stop identifier beginning with 'S' is excluded whatever its
\* suffix (no visit is recorded for it and it is no endpoint of a
\* connection); any other identifier ending in 'N' or 'S' is recorded minus
\* its last character; every remaining identifier is recorded unchanged.
C4_NormaliseInOrder ==
    AtConnectionsReturn =>
        LET rows == {stop_times_file.rows[i] : i \in 1..Len(stop_times_file.rows)}
            claimed == {<<r.trip_id, <<r.stop_sequence, ClaimedCanonical(r.stop_id),
                                       ArrivalMinutes(r.arrival_time)>>>> :
                          r \in {x \in rows : ~ClaimedExcluded(x.stop_id)}}
        IN /\ VisitsKept = claimed
           /\ \A i \in 1..Len(connections) :
                 \A end \in {connections[i].from_stop, connections[i].to_stop} :
                    \E v \in claimed : v[2][2] = end

\* the visits of a trip as the file lists them, in file order
FileVisits(trip_id) ==
    LET kept == SelectSeq(stop_times_file.rows,
                    LAMBDA r : r.trip_id = trip_id
                               /\ ~startswith(StripDirection(r.stop_id), "S"))
    IN [i \in 1..Len(kept) |->
          <<kept[i].stop_sequence, StripDirection(kept[i].stop_id),
            ArrivalMinutes(kept[i].arrival_time)>>]

\* position of visit i after a stable sort by sequence number
Rank(v, i) ==
    1 + Cardinality({k \in 1..Len(v) : v[k][1] < v[i][1] \/ (v[k][1] = v[i][1] /\ k < i)})

StablySorted(v) == [r \in 1..Len(v) |-> v[CHOOSE i \in 1..Len(v) : Rank(v, i) = r]]

\* the edges the claim expects of one sorted trip
ExpectedOfTrip(v, route) ==
    LET pairs == [i \in 1..(IF Len(v) = 0 THEN 0 ELSE Len(v) - 1) |->
                    [from_stop |-> v[i][2], to_stop |-> v[i + 1][2],
                     travel_time |-> v[i + 1][3] - v[i][3], route |-> route]]
    IN SelectSeq(pairs, LAMBDA c : 0 < c.travel_time /\ c.travel_time < 30)

RECURSIVE ExpectedConnections(_)
ExpectedConnections(k) ==
    IF k > Len(trip_stops) THEN <<>>
    ELSE LET trip_id == trip_stops[k][1]
         IN (IF trip_id \in DOMAIN trip_routes
             THEN ExpectedOfTrip(StablySorted(FileVisits(trip_id)), trip_routes[trip_id])
             ELSE <<>>) \o ExpectedConnections(k + 1)

\* C5: for every trip with a route, with its visits stably sorted by
\* sequence number, build_connections emits for each consecutive pair a
\* directed edge of weight arrival[i+1] - arrival[i] exactly when
\* 0 < weight < 30, and nothing else; a trip without a route emits nothing;
\* every emitted weight is an integer in 1..29.
C5_EdgesOfConsecutiveVisits ==
    AtConnectionsReturn =>
        /\ connections = ExpectedConnections(1)
        /\ \A k \in 1..Len(trip_stops) :
              trip_stops[k][1] \in DOMAIN trip_routes =>
                 trip_stops[k][2] = StablySorted(FileVisits(trip_stops[k][1]))
        /\ \A i \in 1..Len(connections) :
              /\ connections[i].travel_time \in 1..29
              /\ connections[i].route = trip_routes["t1"]

\* three visits of t1 listed out of sequence order, 5 minutes between the
\* first two after sorting and 30 minutes between the last two
C5_Witness ==
    /\ AtConnectionsReturn
    /\ \E k \in 1..Len(trip_stops) :
          /\ trip_stops[k][1] = "t1"
          /\ Len(trip_stops[k][2]) = 3
          /\ trip_stops[k][2] # FileVisits("t1")
          /\ trip_stops[k][2][3][3] - trip_stops[k][2][2][3] = 30
    /\ Len(connections) = 1
    /\ connections[1].travel_time = 5

\* the stations dict's keys, as a set
StationSet == {stations[i] : i \in 1..Len(stations)}

Opened(file, mode, found) == \E i \in 1..Len(io_log) : io_log[i] = <<file, mode, found>>

\* C2: in the table main writes, the keys of travel_times are the keys of
\* stations, and every row holds its own source at distance exactly 0.
C2_RoundTrip ==
    output.written =>
        /\ DOMAIN output.travel_times = output.stations
        /\ \A s \in output.stations :
              /\ s \in DOMAIN output.travel_times[s]
              /\ output.travel_times[s][s] = 0

IsTransferRow(r) == "from_stop_id" \in DOMAIN r

Eligible(r) ==
    /\ r.from_stop_id # r.to_stop_id
    /\ ~startswith(r.from_stop_id, "S")
    /\ ~startswith(r.to_stop_id, "S")

\* the weight the claim gives a record: seconds / 60, and 2 minutes when the
\* column is absent or the field is empty
ClaimedTransferTicks(r) ==
    IF "min_transfer_time" \in DOMAIN r /\ r.min_transfer_time # ""
    THEN (FloatOf[r.min_transfer_time] * TicksPerMinute) \div 60
    ELSE 2 * TicksPerMinute

\* C6: a transfer record with distinct endpoints outside the excluded
\* sub-network never fails and appends to both endpoints' neighbor lists an
\* edge of min_transfer_time / 60 minutes, or of 2 minutes when the record
\* does not specify the time (column absent or field empty).
C6_TransferDefault ==
    (IsTransferRow(row) /\ Eligible(row)) =>
        /\ failure = None
        /\ row.from_stop_id \in DOMAIN graph /\ row.to_stop_id \in DOMAIN graph
        /\ graph[row.from_stop_id][Len(graph[row.from_stop_id])]
              = <<row.to_stop_id, ClaimedTransferTicks(row)>>
        /\ graph[row.to_stop_id][Len(graph[row.to_stop_id])]
              = <<row.from_stop_id, ClaimedTransferTicks(row)>>

\* C7: when transfers.txt is missing, add_transfers prints a warning, does
\* not fail and leaves the graph as build_graph made it; main then writes
\* the full table, computed from the trip-derived edges alone.
C7_MissingTransfers ==
    Opened("transfers.txt", "r", FALSE) =>
        /\ warnings = <<TransferWarning>>
        /\ failure = None /\ pc \in {"dijkstra_rows", "done"}
        /\ graph = build_graph(averaged_connections)
        /\ \A s \in DOMAIN travel_times :
              travel_times[s] = dijkstra(build_graph(averaged_connections), s,
                                         MainHorizonMinutes * TicksPerMinute)
        /\ (pc = "done") =>
              /\ output.written
              /\ output.stations = StationSet
              /\ output.travel_times = travel_times
              /\ DOMAIN travel_times = StationSet

C7_Witness ==
    /\ pc = "done"
    /\ Opened("transfers.txt", "r", FALSE)
    /\ stations = <<idA, idB>>
    /\ Len(averaged_connections) = 1
    /\ idB \in DOMAIN output.travel_times[idA]
    /\ output.travel_times[idA][idB] = 5 * TicksPerMinute

RequiredInputs == {"stops.txt", "trips.txt", "stop_times.txt"}

\* C8: the output file is opened for writing at most once, and only after
\* stops, trips and stop times were read, transfers.txt was tried and a row
\* was computed for every station; a finished run has opened it exactly
\* once, and a run with a required input missing is aborted and never opens
\* or writes it.
C8_AllOrNothing ==
    /\ output_opens <= 1
    /\ output_opens = Cardinality({i \in 1..Len(io_log) : io_log[i][2] = "w"})
    /\ output.written <=> (output_opens = 1)
    /\ (output_opens = 1) =>
          /\ \A f \in RequiredInputs : Opened(f, "r", TRUE)
          /\ \E found \in BOOLEAN : Opened("transfers.txt", "r", found)
          /\ io_log[Len(io_log)] = <<"output", "w", TRUE>>
          /\ DOMAIN travel_times = StationSet
          /\ output.travel_times = travel_times
          /\ failure = None
    /\ (pc = "done") => (output_opens = 1)
    /\ (\E f \in RequiredInputs : Opened(f, "r", FALSE)) =>
          /\ pc = "aborted" /\ failure = "FileNotFoundError"
          /\ output_opens = 0

C8_Witness ==
    /\ pc = "done" /\ output_opens = 1
    /\ Len(stations) = 2 /\ Len(io_log) = 5
    /\ Opened("transfers.txt", "r", TRUE)

CountOf(list, entry) == Cardinality({i \in 1..Len(list) : list[i] = entry})

\* C9: after build_graph and after every transfer insertion the graph is
\* symmetric as a multigraph: a's list holds (b, w) as often as b's list
\* holds (a, w), and every neighbor is a key of the graph.
C9_SymmetricMultigraph ==
    \A a \in DOMAIN graph : \A i \in 1..Len(graph[a]) :
        LET b == graph[a][i][1]
            w == graph[a][i][2]
        IN /\ b \in DOMAIN graph
           /\ CountOf(graph[a], <<b, w>>) = CountOf(graph[b], <<a, w>>)

\* a trip-derived edge, then two transfers, one of them parallel to it
C9_Witness ==
    /\ pc = "transfers_loop" /\ transfers.rows_read = 2
    /\ Len(averaged_connections) = 1
    /\ idA \in DOMAIN graph /\ Len(graph[idA]) = 3
    /\ CountOf(graph[idA], <<idB, -60>>) = 1

(***************************************************************************)
(* The table of the trip-derived graph: any list of connections in bounds  *)
(***************************************************************************)
MaxConnections == 3

TableConnections ==
    {c \in [from_stop : {idA, idB, idC}, to_stop : {idA, idB, idC},
            travel_time : {5, 25}, route : {"r1"}] : c.from_stop # c.to_stop}

InitTable ==
    /\ pc = "average_connections"
    /\ graph = EmptyDict
    /\ InitNoSearch
    /\ stations = <<idA, idB, idC>>
    /\ connections \in SeqsUpTo(TableConnections, MaxConnections)
    /\ stop_times_file = Missing /\ trip_routes = EmptyDict /\ trip_stops = <<>>
    /\ averaged_connections = <<>> /\ transfers = NoReader /\ row = NoRow
    /\ travel_times = EmptyDict /\ warnings = <<>> /\ output_opens = 0
    /\ output = NoOutput /\ failure = None /\ io_log = <<>>

TransfersAbsent == OpenTransfersOf({[exists |-> FALSE, time_column |-> FALSE]})

NextTable ==
    \/ AverageConnections
    \/ BuildGraph
    \/ TransfersAbsent
    \/ ComputeRow
    \/ WriteOutput

SpecTable == InitTable /\ [][NextTable]_vars

HasAverage(a, b) == \E k \in 1..Len(averaged_connections) : averaged_connections[k][1] = <<a, b>>
Average(a, b) ==
    averaged_connections[CHOOSE k \in 1..Len(averaged_connections) :
                            averaged_connections[k][1] = <<a, b>>][2]

DirectionsDiffer(a, b) ==
    HasAverage(a, b) /\ HasAverage(b, a) /\ Average(a, b) # Average(b, a)

RowsDiffer(a, b) ==
    \/ (b \in DOMAIN travel_times[a]) # (a \in DOMAIN travel_times[b])
    \/ /\ b \in DOMAIN travel_times[a] /\ a \in DOMAIN travel_times[b]
       /\ travel_times[a][b] # travel_times[b][a]

====
